---- MODULE Spec2Model ----
(***************************************************************************)
(* Model of the high-volume streamer (src/stream_data_realtime.py):        *)
(* HighVolumeStreamer.run, its two bulk inserts running on the thread      *)
(* pool, the signal handler, and the ClickHouse HTTP sink they talk to.    *)
(***************************************************************************)
EXTENDS Integers, Sequences, FiniteSets, TLC

(* ------------------------------------------------------------------ *)
(* Program constants                                                   *)
(* ------------------------------------------------------------------ *)
STREAM_INTERVAL == 1
BATCH_SIZE_EVENTS == 100
BATCH_SIZE_ORDERS == 20
MAX_WORKERS == 4
stats_interval == 10
\* requests.post(..., timeout=10)
timeout == 10
LIMIT == 50

(* ------------------------------------------------------------------ *)
(* Bounds of the model                                                 *)
(* ------------------------------------------------------------------ *)
\* cycles the loop may start before the model stops exploring
MaxCycles == 2
\* sink calls of one run that do not get the regular answer
MaxFaults == 2
\* writes to the sink by somebody else than this producer
MaxExternal == 1
\* rows an external writer appends in one write
ExternalRows == 150
\* rows of the users / products tables when they are not empty
UserRows == 5
ProductRows == 3
MaxStreamBatches == 3
MaxPollFaults == 1
MaxBatchNum == 1
NowSeconds == 2

(* ------------------------------------------------------------------ *)
(* Text: response bodies are sequences of one-character strings        *)
(* ------------------------------------------------------------------ *)
Digits == <<"0", "1", "2", "3", "4", "5", "6", "7", "8", "9">>

IsDigit(c) == \E d \in 1..10 : Digits[d] = c

DigitVal(c) == (CHOOSE d \in 1..10 : Digits[d] = c) - 1

IsSpace(c) == c \in {" ", "\n", "\t", "\r"}

\* the decimal text of a number, as the sink prints a scalar
RECURSIVE str(_)
str(n) == IF n < 10 THEN <<Digits[n + 1]>>
          ELSE str(n \div 10) \o <<Digits[(n % 10) + 1]>>

RECURSIVE lstrip(_)
lstrip(s) == IF s # <<>> /\ IsSpace(Head(s)) THEN lstrip(Tail(s)) ELSE s

RECURSIVE rstrip(_)
rstrip(s) == IF s # <<>> /\ IsSpace(s[Len(s)])
             THEN rstrip(SubSeq(s, 1, Len(s) - 1)) ELSE s

\* str.strip()
strip(s) == rstrip(lstrip(s))

\* int(text) raises ValueError unless the text is a decimal literal
IsIntLiteral(s) == s # <<>> /\ \A i \in 1..Len(s) : IsDigit(s[i])

RECURSIVE int(_)
int(s) == IF s = <<>> THEN 0
          ELSE int(SubSeq(s, 1, Len(s) - 1)) * 10 + DigitVal(s[Len(s)])

Max(a, b) == IF a >= b THEN a ELSE b
Min(a, b) == IF a <= b THEN a ELSE b

StrictlyIncreasing(seq) == \A i \in 1..(Len(seq) - 1) : seq[i] < seq[i + 1]

(* ------------------------------------------------------------------ *)
(* The sink's answers to one HTTP POST                                 *)
(* ------------------------------------------------------------------ *)
\* kind: "response" (an HTTP answer arrived), "ConnectionError", "Timeout"
HttpResponse(status, body) == [kind |-> "response", status |-> status, body |-> body]
TransportError == [kind |-> "ConnectionError", status |-> 0, body |-> <<>>]
Timeout == [kind |-> "Timeout", status |-> 0, body |-> <<>>]

ErrorBody == <<"C", "o", "d", "e", ":", " ", "6", "2", "\n">>
NullBody == <<"\\", "N", "\n">>

\* the regular answer to a scalar query whose true value is n
ScalarAnswer(n) == HttpResponse(200, str(n) \o <<"\n">>)

\* answers to a scalar query whose true value is n
ScalarAnswers(n) ==
    { ScalarAnswer(n),
      HttpResponse(200, <<>>),
      HttpResponse(200, NullBody),
      HttpResponse(500, ErrorBody),
      TransportError,
      Timeout }

\* the regular answer to a bulk INSERT
InsertAnswer == HttpResponse(200, <<>>)

\* answers to a bulk INSERT
InsertAnswers ==
    { InsertAnswer,
      HttpResponse(200, ErrorBody),
      HttpResponse(500, ErrorBody),
      TransportError,
      Timeout }

\* the sink accepted the statement and answered with an empty body
Accepted(resp) == resp.kind = "response" /\ resp.status = 200 /\ resp.body = <<>>

\* the failure classes of a sink call
Outcome(resp) ==
    IF resp.kind # "response" THEN resp.kind
    ELSE IF resp.status >= 400 THEN "http_error"
    ELSE IF resp.body # <<>> THEN "body"
    ELSE "accepted"

(* ------------------------------------------------------------------ *)
(* HighVolumeStreamer: pure parts                                      *)
(* ------------------------------------------------------------------ *)
\* requests.post + raise_for_status + response.text.strip(); "" on any exception
execute_query(resp) ==
    IF resp.kind # "response" THEN <<>>
    ELSE IF resp.status >= 400 THEN <<>>
    ELSE strip(resp.body)

\* int(result) if result else 0, inside try/except: never raises
get_table_count(resp) ==
    LET result == execute_query(resp)
    IN IF result = <<>> THEN 0
       ELSE IF IsIntLiteral(result) THEN int(result) ELSE 0

\* int(self.execute_query(...) or 0) raises ValueError on a non-numeric text
MaxIdRaises(resp) ==
    LET result == execute_query(resp)
    IN result # <<>> /\ ~IsIntLiteral(result)

MaxIdValue(resp) ==
    LET result == execute_query(resp)
    IN IF result = <<>> THEN 0 ELSE int(result)

\* a slip: the id forgets the cycle index
event_id_per_batch(batch_num, max_event_id, i) ==
    max_event_id + i + 1

\* event_id = max_event_id + (batch_num * BATCH_SIZE_EVENTS) + i + 1, i = 0..
event_id(batch_num, max_event_id, i) ==
    max_event_id + (batch_num * BATCH_SIZE_EVENTS) + i + 1

order_id(batch_num, max_order_id, i) ==
    max_order_id + (batch_num * BATCH_SIZE_ORDERS) + i + 1

\* the ids of the batch, in the order the loop appends them
generate_events_batch(batch_num, max_event_id) ==
    [k \in 1..BATCH_SIZE_EVENTS |-> event_id(batch_num, max_event_id, k - 1)]

generate_orders_batch(batch_num, max_order_id) ==
    [k \in 1..BATCH_SIZE_ORDERS |-> order_id(batch_num, max_order_id, k - 1)]

\* the keys of event_weights: what random.choices can return
EventTypes ==
    {"page_view", "click", "search", "add_to_cart", "purchase",
     "remove_from_cart", "login", "logout", "signup", "share"}

\* a slip: the lower end is one too low
randint_from_below(a, b) == {a - 1, b}

\* random.randint(a, b): the two ends of the range stand for its draws
randint(a, b) == {a, b}

\* random.uniform(a, b), in thousandths: the two ends of the range
uniform(a, b) == {a * 1000, b * 1000}

\* random.random(), in hundredths: the draws next to the 0.5 of the code
random_random == {49, 50}

\* round(x, 2): thousandths to hundredths
round2(x) == (x + 5) \div 10

\* a slip: the cart branch is an else, so every other type shows a value
revenue_else(event_type, purchase_draw, cart_draw, coin) ==
    IF event_type = "purchase" THEN round2(purchase_draw)
    ELSE IF coin < 50 THEN round2(cart_draw) ELSE 0

\* revenue of one event, in hundredths, from its type and the random draws
revenue(event_type, purchase_draw, cart_draw, coin) ==
    IF event_type = "purchase" THEN round2(purchase_draw)
    ELSE IF event_type = "add_to_cart"
         THEN IF coin < 50 THEN round2(cart_draw) ELSE 0
         ELSE 0

\* the revenues one event of the type can get
Revenues(event_type) ==
    { revenue(event_type, p, c, coin) :
         p \in uniform(20, 500), c \in uniform(10, 200), coin \in random_random }

\* a slip: the jitter is added
event_timestamp_ahead(now, milliseconds) == now + milliseconds

\* now - timedelta(milliseconds=...), instants in milliseconds
event_timestamp(now, milliseconds) == now - milliseconds

order_timestamp(now, milliseconds) == now - milliseconds

\* strftime('%Y-%m-%d %H:%M:%S'): the text names a whole second, the
\* milliseconds of the instant are dropped
strftime(t) == t \div 1000

\* the texts one event / order of a batch generated at now can carry
EventTimestamps(now) ==
    { strftime(event_timestamp(now, ms)) : ms \in randint(0, 1000) }

OrderTimestamps(now) ==
    { strftime(order_timestamp(now, ms)) : ms \in randint(0, 1000) }

\* success = result == ""
insert_success(result) == result = <<>>

\* a slip: the counter counts batches, not records
insert_total_per_batch(total, success, batch) ==
    IF success THEN total + 1 ELSE total

\* if success: self.total_..._inserted += len(batch)
insert_total(total, success, batch) ==
    IF success THEN total + Len(batch) ELSE total

(* ------------------------------------------------------------------ *)
(* State                                                               *)
(* ------------------------------------------------------------------ *)
Tasks == {"events", "orders"}

VARIABLES
    pc,                     \* where run() stands
    running,                \* self.running
    user_count,             \* locals of run()
    product_count,
    batch_counter,
    max_event_id,
    max_order_id,
    events,                 \* the event ids of the batch generated last
    orders,
    task,                   \* per future: "none", "queued", "running", "done"
    future,                 \* per future: the value insert_* returned
    events_success,
    orders_success,
    total_events_inserted,  \* self.total_events_inserted
    total_orders_inserted,
    elapsed,                \* time.time() - cycle_start, saturating
    since_stats,            \* time.time() - last_stats_time, saturating
    sleep_left,             \* what is left of time.sleep(sleep_time)
    sink,                   \* the store: row counts and greatest ids
    hist,                   \* observations of the run, never read by the program
    gen,                    \* a generator call taken record by record
    dash                    \* a request to the dashboard and what it led to

vars == <<pc, running, user_count, product_count, batch_counter, max_event_id,
          max_order_id, events, orders, task, future, events_success,
          orders_success, total_events_inserted, total_orders_inserted,
          elapsed, since_stats, sleep_left, sink, hist, gen, dash>>

locals == <<user_count, product_count, batch_counter, max_event_id, max_order_id,
            events, orders, events_success, orders_success>>
pool == <<task, future>>
totals == <<total_events_inserted, total_orders_inserted>>
clock == <<elapsed, since_stats, sleep_left>>

InFlight(w) == task[w] \in {"queued", "running"}

ElapsedCap == STREAM_INTERVAL + 1
StatsCap == stats_interval + 1

\* nothing observed yet
NoHistory ==
    [ outcome |-> [w \in Tasks |-> "none"],
      first_done |-> "none",
      events_increasing |-> TRUE,
      orders_increasing |-> TRUE,
      seen_max_event |-> 0,
      seen_max_order |-> 0,
      id_answer |-> "none",
      cycles_started |-> 0,
      sig_started |-> -1,
      sig_done |-> -1,
      faults |-> 0,
      submitted |-> 0,
      returned |-> 0,
      posts |-> [w \in Tasks |-> 0],
      externals |-> 0,
      periodic_reports |-> 0,
      final_reports |-> 0,
      exit |-> "none" ]

\* no record / no generator call under way
NoRec == [kind |-> "none", id |-> 0, user_id |-> 0, product_id |-> 0,
          event_type |-> "none", timestamp |-> 0, revenue |-> 0]

NoGen == [at |-> "idle", i |-> 0, now |-> 0, rec |-> NoRec,
          prev_events |-> <<>>, prev_orders |-> <<>>]

\* no request to the dashboard
NoDash == [at |-> "idle"]

Init ==
    /\ dash = NoDash
    /\ gen = NoGen
    /\ pc = "start"
    /\ running = TRUE
    /\ user_count = 0
    /\ product_count = 0
    /\ batch_counter = 0
    /\ max_event_id = 0
    /\ max_order_id = 0
    /\ events = <<>>
    /\ orders = <<>>
    /\ task = [w \in Tasks |-> "none"]
    /\ future = [w \in Tasks |-> FALSE]
    /\ events_success = FALSE
    /\ orders_success = FALSE
    /\ total_events_inserted = 0
    /\ total_orders_inserted = 0
    /\ elapsed = 0
    /\ since_stats = 0
    /\ sleep_left = 0
    /\ \E u \in {0, UserRows}, p \in {0, ProductRows} :
          sink = [users |-> u, products |-> p, max_event |-> 0, max_order |-> 0]
    /\ hist = NoHistory

(* ------------------------------------------------------------------ *)
(* Answers the sink may give in the present state                      *)
(* ------------------------------------------------------------------ *)
\* every answer while the run has irregular answers left, else the regular one
ScalarChoices(n) ==
    IF hist.faults < MaxFaults THEN ScalarAnswers(n) ELSE {ScalarAnswer(n)}

InsertChoices ==
    IF hist.faults < MaxFaults THEN InsertAnswers ELSE {InsertAnswer}

Faults(resp, regular) == IF resp = regular THEN hist.faults ELSE hist.faults + 1

\* seconds a call with this answer took: a timeout uses up the whole timeout
Took(resp) == IF resp.kind = "Timeout" THEN timeout ELSE 0

\* d seconds pass on the two stopwatches of run()
Advance(d) ==
    /\ elapsed' = Min(elapsed + d, ElapsedCap)
    /\ since_stats' = Min(since_stats + d, StatsCap)

(* ------------------------------------------------------------------ *)
(* run(): startup                                                      *)
(* ------------------------------------------------------------------ *)
\* user_count = self.get_user_count()
GetUserCount ==
    /\ pc = "start"
    /\ \E resp \in ScalarChoices(sink.users) :
          /\ user_count' = get_table_count(resp)
          /\ hist' = [hist EXCEPT !.faults = Faults(resp, ScalarAnswer(sink.users))]
    /\ pc' = "products"
    /\ UNCHANGED <<dash, gen, running, product_count, batch_counter, max_event_id, max_order_id,
                   events, orders, events_success, orders_success, pool, totals,
                   clock, sink>>

\* a slip: and instead of or, one empty table is let through
NoReferenceData_Both(users, products) == users = 0 /\ products = 0

\* the startup test of run(): TRUE when the loop must not begin
NoReferenceData(users, products) == users = 0 \/ products = 0

\* a slip: the startup test stands before try, its return skips finally
ConfigFailureExit_OutsideTry == "stopped"

\* where the return of the startup test leads: it stands inside try, so the
\* finally block runs
ConfigFailureExit == "finally"

\* product_count = self.get_product_count(); the zero test; batch_counter = 0;
\* last_stats_time = time.time()
GetProductCount ==
    /\ pc = "products"
    /\ \E resp \in ScalarChoices(sink.products) :
          /\ product_count' = get_table_count(resp)
          /\ IF NoReferenceData(user_count, product_count')
             THEN /\ pc' = ConfigFailureExit
                  /\ hist' = [hist EXCEPT
                                !.exit = "config",
                                !.faults = Faults(resp, ScalarAnswer(sink.products))]
             ELSE /\ pc' = "loop"
                  /\ hist' = [hist EXCEPT
                                !.faults = Faults(resp, ScalarAnswer(sink.products))]
    /\ batch_counter' = 0
    /\ since_stats' = 0
    /\ UNCHANGED <<dash, gen, running, user_count, max_event_id, max_order_id, events, orders,
                   events_success, orders_success, pool, totals, elapsed,
                   sleep_left, sink>>

(* ------------------------------------------------------------------ *)
(* run(): one cycle of the loop                                        *)
(* ------------------------------------------------------------------ *)
\* a slip: while True, the flag is never looked at
LoopCondition_Forever(flag) == TRUE

\* the loop condition, given the flag as the main thread reads it
LoopCondition(flag) == flag

\* while self.running:
LoopCheck ==
    /\ pc = "loop"
    /\ IF LoopCondition(running)
       THEN /\ hist.cycles_started < MaxCycles
            /\ pc' = "cycle"
            /\ hist' = hist
       ELSE /\ pc' = "pool_exit"
            /\ hist' = [hist EXCEPT !.exit = "signal"]
    /\ UNCHANGED <<dash, gen, running, locals, pool, totals, clock, sink>>

\* cycle_start = time.time()
CycleStart ==
    /\ pc = "cycle"
    /\ elapsed' = 0
    /\ pc' = "q_events"
    /\ hist' = [hist EXCEPT !.cycles_started = @ + 1]
    /\ UNCHANGED <<dash, gen, running, locals, pool, totals, since_stats, sleep_left, sink>>

AnswerClass(resp) ==
    IF execute_query(resp) = <<>> THEN "empty"
    ELSE IF IsIntLiteral(execute_query(resp)) THEN "numeric" ELSE "unparseable"

\* max_event_id = int(self.execute_query("SELECT max(event_id) FROM events") or 0)
QueryMaxEvent ==
    /\ pc = "q_events"
    /\ \E resp \in ScalarChoices(sink.max_event) :
          /\ IF MaxIdRaises(resp)
             THEN /\ pc' = "pool_exit"
                  /\ max_event_id' = max_event_id
                  /\ hist' = [hist EXCEPT
                                !.exit = "fault",
                                !.seen_max_event = sink.max_event,
                                !.id_answer = AnswerClass(resp),
                                !.faults = Faults(resp, ScalarAnswer(sink.max_event))]
             ELSE /\ pc' = "q_orders"
                  /\ max_event_id' = MaxIdValue(resp)
                  /\ hist' = [hist EXCEPT
                                !.seen_max_event = sink.max_event,
                                !.id_answer = AnswerClass(resp),
                                !.faults = Faults(resp, ScalarAnswer(sink.max_event))]
          /\ Advance(Took(resp))
    /\ UNCHANGED <<dash, gen, running, user_count, product_count, batch_counter, max_order_id,
                   events, orders, events_success, orders_success, pool, totals,
                   sleep_left, sink>>

\* max_order_id = int(self.execute_query("SELECT max(order_id) FROM orders") or 0)
QueryMaxOrder ==
    /\ pc = "q_orders"
    /\ \E resp \in ScalarChoices(sink.max_order) :
          /\ IF MaxIdRaises(resp)
             THEN /\ pc' = "pool_exit"
                  /\ max_order_id' = max_order_id
                  /\ hist' = [hist EXCEPT
                                !.exit = "fault",
                                !.seen_max_order = sink.max_order,
                                !.id_answer = AnswerClass(resp),
                                !.faults = Faults(resp, ScalarAnswer(sink.max_order))]
             ELSE /\ pc' = "generate"
                  /\ max_order_id' = MaxIdValue(resp)
                  /\ hist' = [hist EXCEPT
                                !.seen_max_order = sink.max_order,
                                !.id_answer = AnswerClass(resp),
                                !.faults = Faults(resp, ScalarAnswer(sink.max_order))]
          /\ Advance(Took(resp))
    /\ UNCHANGED <<dash, gen, running, user_count, product_count, batch_counter, max_event_id,
                   events, orders, events_success, orders_success, pool, totals,
                   sleep_left, sink>>

\* the ids issued so far stay strictly increasing when batch follows previous
StillIncreasing(flag, previous, batch) ==
    /\ flag
    /\ StrictlyIncreasing(batch)
    /\ previous = <<>> \/ batch = <<>> \/ previous[Len(previous)] < batch[1]

\* events = self.generate_events_batch(...); orders = self.generate_orders_batch(...)
Generate ==
    /\ pc = "generate"
    /\ events' = generate_events_batch(batch_counter, max_event_id)
    /\ orders' = generate_orders_batch(batch_counter, max_order_id)
    /\ hist' = [hist EXCEPT
                  !.events_increasing = StillIncreasing(@, events, events'),
                  !.orders_increasing = StillIncreasing(@, orders, orders'),
                  !.posts = [w \in Tasks |-> 0]]
    /\ pc' = "submit"
    /\ UNCHANGED <<dash, gen, running, user_count, product_count, batch_counter, max_event_id,
                   max_order_id, events_success, orders_success, pool, totals,
                   clock, sink>>

\* a slip: only the event write is handed to the pool
Submit_EventsOnly ==
    /\ pc = "submit"
    /\ task' = [task EXCEPT !["events"] = "queued"]
    /\ pc' = "join_events"
    /\ hist' = [hist EXCEPT !.first_done = "none",
                            !.submitted = @ + 1]
    /\ UNCHANGED <<dash, gen, running, locals, future, totals, clock, sink>>

\* event_future = executor.submit(...); order_future = executor.submit(...)
Submit ==
    /\ pc = "submit"
    /\ task' = [w \in Tasks |-> "queued"]
    /\ pc' = "join_events"
    /\ hist' = [hist EXCEPT !.first_done = "none",
                            !.submitted = @ + Cardinality(Tasks)]
    /\ UNCHANGED <<dash, gen, running, locals, future, totals, clock, sink>>

(* ------------------------------------------------------------------ *)
(* The thread pool and the two bulk inserts                            *)
(* ------------------------------------------------------------------ *)
\* a pool thread takes a queued task; at most MAX_WORKERS threads exist
WorkerStart(w) ==
    /\ task[w] = "queued"
    /\ Cardinality({v \in Tasks : task[v] = "running"}) < MAX_WORKERS
    /\ task' = [task EXCEPT ![w] = "running"]
    /\ UNCHANGED <<dash, gen, pc, running, locals, future, totals, clock, sink, hist>>

\* what the store does with a bulk INSERT it answers with resp: it holds the
\* rows when it acknowledged them, not when it reported an error, and either
\* when the answer was lost on the way (transport error, timeout)
SinkApplies(resp, applied) ==
    /\ Accepted(resp) => applied
    /\ (resp.kind = "response" /\ ~Accepted(resp)) => ~applied

\* a slip: the empty batch is sent like any other
EmptyBatch_Sent(batch) == FALSE

\* if not events: return True
EmptyBatch(batch) == batch = <<>>

\* the highest id of a batch, 0 for the batch without rows
LastId(batch) == IF batch = <<>> THEN 0 ELSE batch[Len(batch)]

\* the value insert_events / insert_orders returns for a batch and the answer
insert_returns(batch, resp) ==
    IF EmptyBatch(batch) THEN TRUE ELSE insert_success(execute_query(resp))

\* <<self.total_events_inserted, self.total_orders_inserted>> after
\* insert_events(batch) got answer resp
insert_events_totals(batch, resp) ==
    IF EmptyBatch(batch) THEN <<total_events_inserted, total_orders_inserted>>
    ELSE << insert_total(total_events_inserted,
                         insert_success(execute_query(resp)), batch),
            total_orders_inserted >>

\* a slip: insert_orders, copied from insert_events, still adds to the
\* event counter
insert_orders_totals_copied(batch, resp) ==
    IF EmptyBatch(batch) THEN <<total_events_inserted, total_orders_inserted>>
    ELSE << insert_total(total_events_inserted,
                         insert_success(execute_query(resp)), batch),
            total_orders_inserted >>

\* the same after insert_orders(batch) got answer resp
insert_orders_totals(batch, resp) ==
    IF EmptyBatch(batch) THEN <<total_events_inserted, total_orders_inserted>>
    ELSE << total_events_inserted,
            insert_total(total_orders_inserted,
                         insert_success(execute_query(resp)), batch) >>

\* history of a bulk insert that POSTed its batch and got resp
Completed(w, resp) ==
    [hist EXCEPT !.outcome[w] = Outcome(resp),
                 !.first_done = IF @ = "none" THEN w ELSE @,
                 !.faults = Faults(resp, InsertAnswer),
                 !.posts[w] = @ + 1,
                 !.returned = @ + 1]

\* history of a bulk insert that returned without a POST
ReturnedEarly(w) ==
    [hist EXCEPT !.first_done = IF @ = "none" THEN w ELSE @,
                 !.returned = @ + 1]

\* insert_events(events) on a pool thread, from the POST to the return
insert_events ==
    /\ task["events"] = "running"
    /\ \E resp \in InsertChoices, applied \in BOOLEAN :
          /\ SinkApplies(resp, applied)
          /\ total_events_inserted' = insert_events_totals(events, resp)[1]
          /\ total_orders_inserted' = insert_events_totals(events, resp)[2]
          /\ future' = [future EXCEPT !["events"] = insert_returns(events, resp)]
          /\ sink' = IF applied /\ ~EmptyBatch(events)
                     THEN [sink EXCEPT !.max_event = Max(@, LastId(events))]
                     ELSE sink
          /\ hist' = IF EmptyBatch(events)
                     THEN ReturnedEarly("events")
                     ELSE Completed("events", resp)
          /\ Advance(IF EmptyBatch(events) THEN 0 ELSE Took(resp))
    /\ task' = [task EXCEPT !["events"] = "done"]
    /\ UNCHANGED <<dash, gen, pc, running, locals, sleep_left>>

\* insert_orders(orders) on a pool thread, from the POST to the return
insert_orders ==
    /\ task["orders"] = "running"
    /\ \E resp \in InsertChoices, applied \in BOOLEAN :
          /\ SinkApplies(resp, applied)
          /\ total_events_inserted' = insert_orders_totals(orders, resp)[1]
          /\ total_orders_inserted' = insert_orders_totals(orders, resp)[2]
          /\ future' = [future EXCEPT !["orders"] = insert_returns(orders, resp)]
          /\ sink' = IF applied /\ ~EmptyBatch(orders)
                     THEN [sink EXCEPT !.max_order = Max(@, LastId(orders))]
                     ELSE sink
          /\ hist' = IF EmptyBatch(orders)
                     THEN ReturnedEarly("orders")
                     ELSE Completed("orders", resp)
          /\ Advance(IF EmptyBatch(orders) THEN 0 ELSE Took(resp))
    /\ task' = [task EXCEPT !["orders"] = "done"]
    /\ UNCHANGED <<dash, gen, pc, running, locals, sleep_left>>

\* a slip: the result is taken without waiting for the task
ResultReady_NoWait(w) == task[w] # "none"

\* Future.result() returns once the task has finished
ResultReady(w) == task[w] = "done"

\* a slip: a cycle with a failed write ends the loop
AfterResults_StopOnFailure(events_ok, orders_ok) ==
    IF events_ok /\ orders_ok THEN "stats" ELSE "pool_exit"

\* a slip: a cycle with a failed write sends its batches again
AfterResults_Resubmit(events_ok, orders_ok) ==
    IF events_ok /\ orders_ok THEN "stats" ELSE "submit"

\* the status line is all that depends on the two results: the loop goes on
\* to batch_counter += 1 and the stats check either way
AfterResults(events_ok, orders_ok) == "stats"

\* a slip: only a cycle whose writes both succeeded is counted
batch_counter_next_if_ok(n, events_ok, orders_ok) ==
    IF events_ok /\ orders_ok THEN n + 1 ELSE n

\* batch_counter += 1, after the status line and whatever it said
batch_counter_next(n, events_ok, orders_ok) == n + 1

\* events_success = event_future.result()
JoinEvents ==
    /\ pc = "join_events"
    /\ ResultReady("events")
    /\ events_success' = future["events"]
    /\ pc' = "join_orders"
    /\ UNCHANGED <<dash, gen, running, user_count, product_count, batch_counter, max_event_id,
                   max_order_id, events, orders, orders_success, pool, totals,
                   clock, sink, hist>>

\* orders_success = order_future.result(); the progress line; batch_counter += 1
JoinOrders ==
    /\ pc = "join_orders"
    /\ ResultReady("orders")
    /\ orders_success' = future["orders"]
    /\ batch_counter' = batch_counter_next(batch_counter, events_success,
                                           orders_success')
    /\ pc' = AfterResults(events_success, orders_success')
    /\ hist' = [hist EXCEPT !.outcome = [w \in Tasks |-> "none"]]
    /\ UNCHANGED <<dash, gen, running, user_count, product_count, max_event_id, max_order_id,
                   events, orders, events_success, pool, totals, clock, sink>>

(* ------------------------------------------------------------------ *)
(* Stats, pacing, exit                                                 *)
(* ------------------------------------------------------------------ *)
\* the two count() answers show_throughput_stats() prints
CountAnswers == ScalarAnswers(0) \cup ScalarAnswers(BATCH_SIZE_EVENTS)

\* show_throughput_stats(): prints the counters and two table counts; took is
\* the time its two sink calls used
show_throughput_stats(kind, took) ==
    \E r1 \in CountAnswers, r2 \in CountAnswers :
       LET total_events == get_table_count(r1)
           total_orders == get_table_count(r2)
       IN /\ total_events >= 0
          /\ total_orders >= 0
          /\ took = Took(r1) + Took(r2)
          /\ hist' = IF kind = "final"
                     THEN [hist EXCEPT !.final_reports = @ + 1]
                     ELSE [hist EXCEPT !.periodic_reports = @ + 1]

\* a slip: the report is printed in every cycle
StatsDue_EveryCycle(since) == TRUE

\* time.time() - last_stats_time > stats_interval
StatsDue(since) == since > stats_interval

\* if time.time() - last_stats_time > stats_interval: show, last_stats_time = now
StatsCheck ==
    /\ pc = "stats"
    /\ IF StatsDue(since_stats)
       THEN \E took \in {0, timeout, 2 * timeout} :
               /\ show_throughput_stats("periodic", took)
               /\ elapsed' = Min(elapsed + took, ElapsedCap)
               /\ since_stats' = 0
       ELSE /\ since_stats' = since_stats
            /\ elapsed' = elapsed
            /\ hist' = hist
    /\ pc' = "pace"
    /\ UNCHANGED <<dash, gen, running, locals, pool, totals, sleep_left, sink>>

\* a slip: the loop sleeps the whole interval whatever the cycle took
sleep_time_fixed(e) == STREAM_INTERVAL

\* sleep_time = max(0, STREAM_INTERVAL - elapsed)
sleep_time(e) == Max(0, STREAM_INTERVAL - e)

\* if sleep_time > 0: time.sleep(sleep_time)
Pace ==
    /\ pc = "pace"
    /\ IF sleep_time(elapsed) > 0
       THEN /\ pc' = "sleep"
            /\ sleep_left' = sleep_time(elapsed)
       ELSE /\ pc' = "loop"
            /\ sleep_left' = 0
    /\ UNCHANGED <<dash, gen, running, locals, pool, totals, elapsed, since_stats, sink, hist>>

\* time.sleep(sleep_time) runs its time and returns
Sleep ==
    /\ pc = "sleep"
    /\ Advance(sleep_left)
    /\ sleep_left' = 0
    /\ pc' = "loop"
    /\ UNCHANGED <<dash, gen, running, locals, pool, totals, sink, hist>>

\* leaving the with block: ThreadPoolExecutor.__exit__ waits for its tasks
PoolExit ==
    /\ pc = "pool_exit"
    /\ \A w \in Tasks : ~InFlight(w)
    /\ pc' = "finally"
    /\ UNCHANGED <<dash, gen, running, locals, pool, totals, clock, sink, hist>>

\* finally: print, self.show_throughput_stats()
Finally ==
    /\ pc = "finally"
    /\ \E took \in {0, timeout, 2 * timeout} : show_throughput_stats("final", took)
    /\ pc' = "stopped"
    /\ UNCHANGED <<dash, gen, running, locals, pool, totals, clock, sink>>

(* ------------------------------------------------------------------ *)
(* Environment: signals, other writers                                 *)
(* ------------------------------------------------------------------ *)
\* a slip: the handler flips the flag, so a second signal resumes the loop
signal_handler_flip ==
    /\ pc # "stopped"
    /\ running' = ~running
    /\ hist' = IF running
               THEN [hist EXCEPT !.sig_started = hist.cycles_started,
                                 !.sig_done = batch_counter]
               ELSE hist
    /\ UNCHANGED <<dash, gen, pc, locals, pool, totals, clock, sink>>

\* signal_handler(signum, frame): self.running = False
\* (hist keeps how far the loop was when the first signal came)
signal_handler ==
    /\ pc # "stopped"
    /\ running' = FALSE
    /\ hist' = IF running
               THEN [hist EXCEPT !.sig_started = hist.cycles_started,
                                 !.sig_done = batch_counter]
               ELSE hist
    /\ UNCHANGED <<dash, gen, pc, locals, pool, totals, clock, sink>>

\* somebody else appends ExternalRows rows to both tables, before the run or
\* between two cycles
ExternalWrite ==
    /\ pc \in {"start", "loop"}
    /\ hist.externals < MaxExternal
    /\ sink' = [sink EXCEPT !.max_event = @ + ExternalRows,
                            !.max_order = @ + ExternalRows]
    /\ hist' = [hist EXCEPT !.externals = @ + 1]
    /\ UNCHANGED <<dash, gen, pc, running, locals, pool, totals, clock>>

Next ==
    \/ GetUserCount
    \/ GetProductCount
    \/ LoopCheck
    \/ CycleStart
    \/ QueryMaxEvent
    \/ QueryMaxOrder
    \/ Generate
    \/ Submit
    \/ \E w \in Tasks : WorkerStart(w)
    \/ insert_events
    \/ insert_orders
    \/ JoinEvents
    \/ JoinOrders
    \/ StatsCheck
    \/ Pace
    \/ Sleep
    \/ PoolExit
    \/ Finally
    \/ signal_handler
    \/ ExternalWrite

Spec == Init /\ [][Next]_vars

(* ------------------------------------------------------------------ *)
(* Properties                                                          *)
(* ------------------------------------------------------------------ *)
\* task w returns in this step
Returns(w) == task[w] = "running" /\ task'[w] = "done"

\* C1: a bulk write that fails (the sink answers with a non-empty body or an
\* error status, or the call hits a transport error or a timeout) leaves both
\* cumulative counters as they were.
C1_FailedWriteKeepsCounters ==
    [][ \A w \in Tasks :
          (Returns(w) /\ hist'.outcome[w] # "accepted") =>
             /\ total_events_inserted' = total_events_inserted
             /\ total_orders_inserted' = total_orders_inserted ]_vars

\* C2: an insert reports success exactly when the sink accepted the statement
\* and answered with an empty body; a non-empty body, a transport error and a
\* timeout each make it report failure.
C2_SuccessIffAccepted ==
    \A w \in Tasks :
       (task[w] = "done" /\ hist.outcome[w] # "none") =>
          (future[w] <=> hist.outcome[w] = "accepted")

\* C3: a bulk write of n records that succeeds adds exactly n to the counter of
\* its entity type and leaves the other counter alone, whichever of the two
\* writes of the cycle returns first.
C3_SuccessAddsBatchSize ==
    [][ /\ (Returns("events") /\ (future'["events"] \/ hist'.outcome["events"] = "accepted"))
           => /\ total_events_inserted' = total_events_inserted + Len(events)
              /\ total_orders_inserted' = total_orders_inserted
        /\ (Returns("orders") /\ (future'["orders"] \/ hist'.outcome["orders"] = "accepted"))
           => /\ total_orders_inserted' = total_orders_inserted + Len(orders)
              /\ total_events_inserted' = total_events_inserted ]_vars

\* the order write of the first cycle succeeded and is counted while the event
\* write is still running
C3_Witness ==
    /\ task["orders"] = "done"
    /\ future["orders"]
    /\ task["events"] = "running"
    /\ total_orders_inserted = BATCH_SIZE_ORDERS
    /\ total_events_inserted = 0

\* C4: over all cycles of one run the event ids and the order ids are issued in
\* strictly increasing order (so none is issued twice), whatever the sink
\* answers.
C4_IdsStrictlyIncreasing ==
    hist.events_increasing /\ hist.orders_increasing

\* C5: an empty or unparseable answer to a max-id query counts as 0 and never
\* ends the loop.
C5_UnparseableIsZero ==
    hist.id_answer \in {"empty", "unparseable"} =>
       /\ hist.exit # "fault"
       /\ pc = "q_orders" => max_event_id = 0
       /\ pc = "generate" => max_order_id = 0

\* C6: after the first shutdown signal at most one more cycle is started and
\* at most one more is completed, and when the loop exits on the signal every
\* cycle it started has joined both of its writes.
C6_ShutdownAfterCurrentCycle ==
    /\ hist.sig_started # -1 =>
          /\ hist.cycles_started <= hist.sig_started + 1
          /\ batch_counter <= hist.sig_done + 1
    /\ hist.exit = "signal" =>
          /\ batch_counter = hist.cycles_started
          /\ \A w \in Tasks : ~InFlight(w)

\* the signal came inside the first cycle, the cycle was completed, the loop
\* then stopped
C6_Witness ==
    /\ pc = "stopped"
    /\ hist.exit = "signal"
    /\ hist.sig_started = 1
    /\ hist.sig_done = 0
    /\ batch_counter = 1

\* C7: however run() ends, the final stats report is emitted exactly once, and
\* only when the loop has stopped and no write is in flight.
C7_FinalStatsOnce ==
    /\ hist.final_reports <= 1
    /\ pc = "stopped" <=> hist.final_reports = 1
    /\ pc \in {"finally", "stopped"} =>
          /\ hist.exit \in {"signal", "config", "fault"}
          /\ \A w \in Tasks : ~InFlight(w)

\* run() ended on an unhandled fault inside the second cycle and reported
C7_Witness ==
    /\ pc = "stopped"
    /\ hist.exit = "fault"
    /\ hist.final_reports = 1
    /\ batch_counter = 1

\* C8: a write is in flight only while run() stands at the two joins, so the
\* max-id queries of the next cycle are issued after both writes have returned.
C8_NoAdvanceWithWritesInFlight ==
    \A w \in Tasks : InFlight(w) => pc \in {"join_events", "join_orders"}

\* the second cycle asks for the max ids after a cycle whose order write
\* returned before its event write
C8_Witness ==
    /\ pc = "q_events"
    /\ batch_counter = 1
    /\ hist.first_done = "orders"
    /\ \A w \in Tasks : task[w] = "done"

\* C9 as stated: a counter changes only in a step of run() itself, taken when
\* no write is in flight.
C9_CountersOwnedByOrchestrator ==
    [][ (total_events_inserted' # total_events_inserted
         \/ total_orders_inserted' # total_orders_inserted)
        => /\ pc' # pc
           /\ \A w \in Tasks : ~InFlight(w) ]_vars

\* C9, amended: each counter is changed only by the task of its own entity
\* type, in the step in which that task returns (the other write may still be
\* in flight); run() changes no counter, and stands at a stats report only
\* when no write is in flight.
C9_CountersWrittenByOwnTask ==
    /\ [][ /\ total_events_inserted' # total_events_inserted
              => Returns("events") /\ pc' = pc
           /\ total_orders_inserted' # total_orders_inserted
              => Returns("orders") /\ pc' = pc ]_vars
    /\ [](pc \in {"stats", "finally"} => \A w \in Tasks : ~InFlight(w))

\* the event counter has been raised while the order write is still in flight
C9_Witness ==
    /\ total_events_inserted = BATCH_SIZE_EVENTS
    /\ InFlight("orders")

\* C10: the ids generated in a cycle are all greater than every id the sink
\* held when that cycle's max-id query was made.
C10_IdsAboveSinkMax ==
    pc = "submit" =>
       /\ \A i \in 1..Len(events) : events[i] > hist.seen_max_event
       /\ \A i \in 1..Len(orders) : orders[i] > hist.seen_max_order


\* C11: when the user count or the product count read at startup is 0, run()
\* ends at startup: no cycle begins, no max-id query is made, no batch is
\* generated and no write is submitted.
C11_ConfigFailureNeverStartsLoop ==
    (pc \notin {"start", "products"} /\ (user_count = 0 \/ product_count = 0)) =>
       /\ pc \in {"finally", "stopped"}
       /\ hist.exit = "config"
       /\ hist.cycles_started = 0
       /\ hist.id_answer = "none"
       /\ events = <<>> /\ orders = <<>>
       /\ \A w \in Tasks : task[w] = "none"
       /\ sink.max_event = hist.externals * ExternalRows
       /\ sink.max_order = hist.externals * ExternalRows

\* run() has ended at startup: there are users, the product count read is 0
C11_Witness ==
    /\ pc = "stopped"
    /\ hist.exit = "config"
    /\ user_count = UserRows
    /\ product_count = 0


\* C12: pacing does not make up for lost time. The loop sleeps
\* max(0, interval - elapsed) at the end of a cycle, not at all when the cycle
\* took the interval or longer, and every cycle submits one event batch and
\* one order batch of the fixed sizes, however late the loop is.
C12_PacingWithoutCatchUp ==
    /\ [][ (pc = "pace" /\ pc' # pc) =>
              /\ sleep_left' = Max(0, STREAM_INTERVAL - elapsed)
              /\ elapsed >= STREAM_INTERVAL => pc' = "loop"
              /\ elapsed < STREAM_INTERVAL => pc' = "sleep" ]_vars
    /\ [][ (pc = "submit" /\ pc' # pc) =>
              /\ Len(events) = BATCH_SIZE_EVENTS
              /\ Len(orders) = BATCH_SIZE_ORDERS
              /\ hist'.submitted = hist.submitted + 2 ]_vars
    /\ [](hist.submitted \in {2 * batch_counter, 2 * (batch_counter + 1)})

\* the first cycle took a whole timeout and was followed by no sleep; the
\* second cycle has submitted its two batches of the usual sizes
C12_Witness ==
    /\ pc = "join_events"
    /\ batch_counter = 1
    /\ since_stats = timeout
    /\ elapsed = 0
    /\ Len(events) = BATCH_SIZE_EVENTS
    /\ Len(orders) = BATCH_SIZE_ORDERS


\* C13: no failure triggers a retry. Every generated batch is POSTed at most
\* once, the batches a cycle submits have never been sent before, and after
\* the two results are in, failed or not, the loop goes on to the next cycle
\* index.
C13_NoRetry ==
    /\ [](\A w \in Tasks : hist.posts[w] <= 1)
    /\ [][ (pc = "submit" /\ pc' # pc) => \A w \in Tasks : hist.posts[w] = 0 ]_vars
    /\ [][ (pc = "join_orders" /\ pc' # pc) =>
              /\ pc' = "stats"
              /\ batch_counter' = batch_counter + 1
              /\ UNCHANGED <<events, orders, task>> ]_vars

\* the event write of the first cycle failed, and the second cycle has
\* generated and submitted a batch of its own
C13_Witness ==
    /\ pc = "join_events"
    /\ batch_counter = 1
    /\ ~events_success
    /\ events = generate_events_batch(1, max_event_id)
    /\ \A w \in Tasks : hist.posts[w] = 0 /\ task[w] = "queued"


(* ------------------------------------------------------------------ *)
(* The two generators, one record at a time                            *)
(* ------------------------------------------------------------------ *)
\* the starting max ids and the clock readings the generators are tried with
MaxIdSamples == {0, ExternalRows}
NowSamples == {NowSeconds * 1000, NowSeconds * 1000 + 999}

\* run() stands before its call of generate_events_batch, with reference data
\* counted and the max ids read
InitGen ==
    /\ dash = NoDash
    /\ pc = "generate"
    /\ running = TRUE
    /\ user_count = UserRows
    /\ product_count = ProductRows
    /\ batch_counter = 0
    /\ \E m \in MaxIdSamples :
          /\ max_event_id = m
          /\ max_order_id = m
          /\ sink = [users |-> UserRows, products |-> ProductRows,
                     max_event |-> m, max_order |-> m]
    /\ events = <<>>
    /\ orders = <<>>
    /\ task = [w \in Tasks |-> "none"]
    /\ future = [w \in Tasks |-> FALSE]
    /\ events_success = FALSE
    /\ orders_success = FALSE
    /\ total_events_inserted = 0
    /\ total_orders_inserted = 0
    /\ elapsed = 0
    /\ since_stats = 0
    /\ sleep_left = 0
    /\ hist = [NoHistory EXCEPT !.seen_max_event = max_event_id,
                                !.seen_max_order = max_order_id,
                                !.id_answer = "number",
                                !.cycles_started = 1]
    /\ \E n \in NowSamples : gen = [NoGen EXCEPT !.at = "events", !.now = n]

\* one pass of the for loop of generate_events_batch: events.append({...})
generate_events_append ==
    /\ gen.at = "events"
    /\ gen.i < BATCH_SIZE_EVENTS
    /\ \E user_id \in randint(1, user_count), event_type \in EventTypes :
       \E t \in EventTimestamps(gen.now), r \in Revenues(event_type) :
          LET id == event_id(batch_counter, max_event_id, gen.i)
          IN /\ events' = Append(events, id)
             /\ gen' = [gen EXCEPT
                          !.i = @ + 1,
                          !.rec = [kind |-> "event", id |-> id,
                                   user_id |-> user_id, product_id |-> 0,
                                   event_type |-> event_type,
                                   timestamp |-> t, revenue |-> r]]
    /\ UNCHANGED <<dash, pc, running, user_count, product_count, batch_counter,
                   max_event_id, max_order_id, orders, events_success,
                   orders_success, pool, totals, clock, sink, hist>>

\* return events; then the call of generate_orders_batch: orders = [], now
generate_events_return ==
    /\ gen.at = "events"
    /\ gen.i = BATCH_SIZE_EVENTS
    /\ orders' = <<>>
    /\ \E n \in NowSamples :
          gen' = [gen EXCEPT !.at = "orders", !.i = 0, !.now = n,
                             !.rec = NoRec, !.prev_orders = orders]
    /\ UNCHANGED <<dash, pc, running, user_count, product_count, batch_counter,
                   max_event_id, max_order_id, events, events_success,
                   orders_success, pool, totals, clock, sink, hist>>

\* one pass of the for loop of generate_orders_batch: orders.append({...})
generate_orders_append ==
    /\ gen.at = "orders"
    /\ gen.i < BATCH_SIZE_ORDERS
    /\ \E user_id \in randint(1, user_count),
          product_id \in randint(1, product_count),
          t \in OrderTimestamps(gen.now) :
          LET id == order_id(batch_counter, max_order_id, gen.i)
          IN /\ orders' = Append(orders, id)
             /\ gen' = [gen EXCEPT
                          !.i = @ + 1,
                          !.rec = [kind |-> "order", id |-> id,
                                   user_id |-> user_id,
                                   product_id |-> product_id,
                                   event_type |-> "none",
                                   timestamp |-> t, revenue |-> 0]]
    /\ UNCHANGED <<dash, pc, running, user_count, product_count, batch_counter,
                   max_event_id, max_order_id, events, events_success,
                   orders_success, pool, totals, clock, sink, hist>>

\* return orders
generate_orders_return ==
    /\ gen.at = "orders"
    /\ gen.i = BATCH_SIZE_ORDERS
    /\ gen' = [gen EXCEPT !.at = "returned", !.rec = NoRec]
    /\ UNCHANGED <<dash, pc, running, locals, pool, totals, clock, sink, hist>>

\* the generators are called again for the next cycle index, the starting
\* max ids being the same
GenerateNext ==
    /\ gen.at = "returned"
    /\ batch_counter < MaxBatchNum
    /\ batch_counter' = batch_counter + 1
    /\ events' = <<>>
    /\ \E n \in NowSamples :
          gen' = [gen EXCEPT !.at = "events", !.i = 0, !.now = n,
                             !.prev_events = events]
    /\ UNCHANGED <<dash, pc, running, user_count, product_count, max_event_id,
                   max_order_id, orders, events_success, orders_success, pool,
                   totals, clock, sink, hist>>

NextGen ==
    \/ generate_events_append
    \/ generate_events_return
    \/ generate_orders_append
    \/ generate_orders_return
    \/ GenerateNext

SpecGen == InitGen /\ [][NextGen]_vars

\* the ids of a batch as a set
Ids(batch) == {batch[j] : j \in 1..Len(batch)}

\* C14: for a fixed starting max id, the ids a generator gives are strictly
\* increasing inside the batch, and every id of the batch of cycle index k+1
\* is greater than every id of the batch of index k; for events and orders.
C14_BatchIdsIncreaseAndDoNotOverlap ==
    /\ StrictlyIncreasing(events)
    /\ StrictlyIncreasing(orders)
    /\ StrictlyIncreasing(gen.prev_events)
    /\ StrictlyIncreasing(gen.prev_orders)
    /\ gen.at \in {"orders", "returned"} =>
          /\ events = generate_events_batch(batch_counter, max_event_id)
          /\ Ids(gen.prev_events) \cap Ids(events) = {}
          /\ gen.prev_events # <<>> =>
                gen.prev_events[Len(gen.prev_events)] < events[1]
    /\ gen.at = "returned" =>
          /\ orders = generate_orders_batch(batch_counter, max_order_id)
          /\ Ids(gen.prev_orders) \cap Ids(orders) = {}
          /\ gen.prev_orders # <<>> =>
                gen.prev_orders[Len(gen.prev_orders)] < orders[1]

\* both generators have returned for cycle index 1 after cycle index 0, from
\* a starting max id above zero
C14_Witness ==
    /\ gen.at = "returned"
    /\ batch_counter = 1
    /\ max_event_id = ExternalRows
    /\ Len(gen.prev_events) = BATCH_SIZE_EVENTS
    /\ Len(events) = BATCH_SIZE_EVENTS
    /\ Len(gen.prev_orders) = BATCH_SIZE_ORDERS
    /\ Len(orders) = BATCH_SIZE_ORDERS


\* C15: from max_event_id = 0 the event batch of cycle index 0 has exactly
\* BATCH_SIZE_EVENTS records whose ids are the set 1..BATCH_SIZE_EVENTS; every
\* generated user_id is in 1..user_count and every generated product_id in
\* 1..product_count.
C15_FirstBatchIdsAndReferenceRanges ==
    /\ (gen.at \in {"orders", "returned"} /\ batch_counter = 0 /\ max_event_id = 0) =>
          /\ Len(events) = BATCH_SIZE_EVENTS
          /\ Ids(events) = 1..BATCH_SIZE_EVENTS
          /\ Cardinality(Ids(events)) = BATCH_SIZE_EVENTS
    /\ gen.rec.kind # "none" => gen.rec.user_id \in 1..user_count
    /\ gen.rec.kind = "order" => gen.rec.product_id \in 1..product_count

\* the event batch of cycle index 0 is complete, generated from max id 0 for
\* UserRows users, and the first order has been generated
C15_Witness ==
    /\ gen.at = "orders"
    /\ gen.i = 1
    /\ batch_counter = 0
    /\ max_event_id = 0
    /\ user_count = UserRows
    /\ Len(events) = BATCH_SIZE_EVENTS
    /\ gen.rec.user_id = UserRows
    /\ gen.rec.product_id = ProductRows

\* C16 as stated: the timestamp written into a record is not more than
\* 1000 ms before the generation time of its batch, and not after it.
C16_WrittenWithinLastSecond ==
    gen.rec.kind # "none" =>
       /\ gen.now - 1000 <= gen.rec.timestamp * 1000
       /\ gen.rec.timestamp * 1000 <= gen.now

\* C16, amended: the timestamp written into a record is the whole second of
\* an instant of the last 1000 ms, so it is not after the generation time and
\* less than 2000 ms before it.
C16_WrittenIsWholeSecondOfLastSecond ==
    gen.rec.kind # "none" =>
       /\ gen.now - 2000 < gen.rec.timestamp * 1000
       /\ gen.rec.timestamp * 1000 <= gen.now
       /\ (gen.now - 1000) \div 1000 <= gen.rec.timestamp

\* a record generated 999 ms into a second with the full jitter: its text
\* names the second before the one the jittered instant is compared with
C16_Witness ==
    /\ gen.rec.kind = "event"
    /\ gen.now = NowSeconds * 1000 + 999
    /\ gen.rec.timestamp = NowSeconds - 1

\* C17: a purchase has a nonzero revenue, an event that is neither a purchase
\* nor an add_to_cart has revenue 0, and an add_to_cart can get a zero and a
\* nonzero revenue.
C17_RevenueByEventType ==
    /\ gen.rec.event_type = "purchase" => gen.rec.revenue > 0
    /\ (gen.rec.kind = "event" /\ gen.rec.event_type \notin {"purchase", "add_to_cart"}) =>
          gen.rec.revenue = 0
    /\ gen.rec.kind = "order" => gen.rec.revenue = 0
    /\ gen.at = "events" =>
          /\ 0 \in Revenues("add_to_cart")
          /\ \E r \in Revenues("add_to_cart") : r # 0
          /\ \A ty \in EventTypes \ {"purchase", "add_to_cart"} : Revenues(ty) = {0}
          /\ 0 \notin Revenues("purchase")

\* an add_to_cart event that shows a value
C17_Witness ==
    /\ gen.rec.kind = "event"
    /\ gen.rec.event_type = "add_to_cart"
    /\ gen.rec.revenue = 1000


(* ------------------------------------------------------------------ *)
(* insert_events and insert_orders called on their own                 *)
(* ------------------------------------------------------------------ *)
\* the batches the two methods are tried with: none, and one of a cycle
EventBatches == {<<>>, generate_events_batch(0, 0)}
OrderBatches == {<<>>, generate_orders_batch(0, 0)}

\* both methods have been handed to the pool with a batch each; the counters
\* and the store hold what earlier cycles left
InitInsert ==
    /\ dash = NoDash
    /\ gen = NoGen
    /\ pc = "join_events"
    /\ running = TRUE
    /\ user_count = UserRows
    /\ product_count = ProductRows
    /\ batch_counter = 0
    /\ max_event_id = 0
    /\ max_order_id = 0
    /\ events \in EventBatches
    /\ orders \in OrderBatches
    /\ task = [w \in Tasks |-> "running"]
    /\ future = [w \in Tasks |-> FALSE]
    /\ events_success = FALSE
    /\ orders_success = FALSE
    /\ total_events_inserted \in {0, BATCH_SIZE_EVENTS}
    /\ total_orders_inserted \in {0, BATCH_SIZE_ORDERS}
    /\ elapsed = 0
    /\ since_stats = 0
    /\ sleep_left = 0
    /\ \E m \in MaxIdSamples :
          sink = [users |-> UserRows, products |-> ProductRows,
                  max_event |-> m, max_order |-> m]
    /\ hist = [NoHistory EXCEPT !.id_answer = "number",
                                !.cycles_started = 1,
                                !.submitted = Cardinality(Tasks)]

NextInsert ==
    \/ insert_events
    \/ insert_orders

SpecInsert == InitInsert /\ [][NextInsert]_vars

\* C18: inserting an empty batch is a no-op that returns success:
\* insert_events([]) and insert_orders([]) return True, send nothing to the
\* sink and change no counter.
C18_EmptyBatchIsNoOp ==
    [][ /\ (events = <<>> /\ task["events"] = "running" /\ task'["events"] = "done") =>
             /\ future'["events"] = TRUE
             /\ UNCHANGED <<total_events_inserted, total_orders_inserted>>
             /\ UNCHANGED <<sink, elapsed, since_stats>>
             /\ hist'.posts = hist.posts
             /\ hist'.faults = hist.faults
             /\ hist'.outcome = hist.outcome
        /\ (orders = <<>> /\ task["orders"] = "running" /\ task'["orders"] = "done") =>
             /\ future'["orders"] = TRUE
             /\ UNCHANGED <<total_events_inserted, total_orders_inserted>>
             /\ UNCHANGED <<sink, elapsed, since_stats>>
             /\ hist'.posts = hist.posts
             /\ hist'.faults = hist.faults
             /\ hist'.outcome = hist.outcome ]_vars

\* both methods have returned from an empty batch, with counters that were
\* above zero before
C18_Witness ==
    /\ events = <<>>
    /\ orders = <<>>
    /\ \A w \in Tasks : task[w] = "done" /\ future[w] /\ hist.posts[w] = 0
    /\ hist.returned = 2
    /\ total_events_inserted = BATCH_SIZE_EVENTS
    /\ total_orders_inserted = BATCH_SIZE_ORDERS
    /\ sink.max_event = ExternalRows


\* C19: the signal handler sets running to FALSE and changes nothing else of
\* the program (counters, cycle index, batches, tasks, clock, store); no other
\* step writes the flag, so once FALSE it stays FALSE, whatever signals follow.
C19_SignalOnlyClearsFlag ==
    /\ [][ running' # running =>
              /\ running' = FALSE
              /\ UNCHANGED <<pc, locals, pool, totals, clock, sink, gen>> ]_vars
    /\ [][ ~running => ~running' ]_vars
    /\ [](running \/ hist.sig_started >= 0)

\* a signal has come while both writes of the second cycle were in flight
C19_Witness ==
    /\ ~running
    /\ pc = "join_events"
    /\ batch_counter = 1
    /\ hist.sig_done = 1
    /\ \A w \in Tasks : InFlight(w)

\* C20: a cycle hands exactly two tasks to the pool, the event write and the
\* order write; at most two writes are in flight, never more than the pool
\* has workers; a submitted write is never cancelled: it goes from queued to
\* running to done, and the loop leaves the cycle with every submitted write
\* returned.
C20_TwoWritesPerCycleRunToCompletion ==
    /\ [](Cardinality({w \in Tasks : InFlight(w)}) <= 2)
    /\ [](Cardinality({w \in Tasks : InFlight(w)}) <= MAX_WORKERS)
    /\ [][ (pc = "submit" /\ pc' # pc) =>
              /\ hist'.submitted = hist.submitted + 2
              /\ \A w \in Tasks : task'[w] = "queued" ]_vars
    /\ [][ \A w \in Tasks :
              /\ task[w] = "queued" => task'[w] \in {"queued", "running"}
              /\ task[w] = "running" => task'[w] \in {"running", "done"}
              /\ (task[w] = "done" /\ task'[w] # "done") =>
                    (pc = "submit" /\ task'[w] = "queued") ]_vars
    /\ [](hist.submitted - hist.returned = Cardinality({w \in Tasks : InFlight(w)}))
    /\ [](pc \notin {"join_events", "join_orders"} =>
             /\ hist.returned = hist.submitted
             /\ \A w \in Tasks : ~InFlight(w))

\* the two writes of the second cycle run at the same time
C20_Witness ==
    /\ pc = "join_events"
    /\ batch_counter = 1
    /\ \A w \in Tasks : task[w] = "running"
    /\ hist.submitted = 4
    /\ hist.returned = 2


\* C21: stats reporting is read-only and happens at cycle boundaries only. A
\* periodic report is printed after both writes of the cycle are joined, at
\* most once per cycle, only when more than stats_interval has passed since
\* the previous one, and printing it leaves the counters, the cycle index and
\* the running flag as they were.
C21_PeriodicStatsReadOnly ==
    /\ [][ hist'.periodic_reports # hist.periodic_reports =>
              /\ hist'.periodic_reports = hist.periodic_reports + 1
              /\ pc = "stats"
              /\ pc' = "pace"
              /\ since_stats > stats_interval
              /\ since_stats' = 0
              /\ \A w \in Tasks : task[w] = "done"
              /\ hist.returned = hist.submitted
              /\ UNCHANGED <<total_events_inserted, total_orders_inserted,
                             batch_counter, running, sink, pool, events, orders>> ]_vars
    /\ [](hist.periodic_reports <= batch_counter)

\* the first cycle took longer than stats_interval and ended with a report,
\* with the counters of its two successful writes in place
C21_Witness ==
    /\ pc = "pace"
    /\ batch_counter = 1
    /\ hist.periodic_reports = 1
    /\ since_stats = 0
    /\ total_events_inserted = BATCH_SIZE_EVENTS
    /\ total_orders_inserted = BATCH_SIZE_ORDERS


(* ------------------------------------------------------------------ *)
(* Progress of the run                                                 *)
(* ------------------------------------------------------------------ *)
\* a step of the main thread or of a pool thread; every sink call in it has
\* returned or timed out
ProgramStep ==
    \/ GetUserCount
    \/ GetProductCount
    \/ LoopCheck
    \/ CycleStart
    \/ QueryMaxEvent
    \/ QueryMaxOrder
    \/ Generate
    \/ Submit
    \/ \E w \in Tasks : WorkerStart(w)
    \/ insert_events
    \/ insert_orders
    \/ JoinEvents
    \/ JoinOrders
    \/ StatsCheck
    \/ Pace
    \/ Sleep
    \/ PoolExit
    \/ Finally

\* the threads of the program are scheduled as long as one of them can step
FairSpec == Init /\ [][Next]_vars /\ WF_vars(ProgramStep)

\* C22: with the program's threads scheduled and every sink call returning or
\* timing out, a run whose running flag has been cleared reaches the stopped
\* state; and the loop is left only after a signal or a fault that escapes the
\* loop body (or never entered, without reference data), whatever the writes
\* returned.
C22_StopsAfterSignalOnly ==
    /\ (~running) ~> (pc = "stopped")
    /\ [](pc \in {"pool_exit", "finally", "stopped"} =>
             /\ hist.exit \in {"config", "signal", "fault"}
             /\ hist.exit = "signal" => ~running
             /\ hist.exit = "config" => hist.cycles_started = 0)
    /\ [](pc = "stopped" => hist.final_reports = 1)

\* the event write failed in a completed cycle, the loop went on, and the run
\* stopped on a signal
C22_Witness ==
    /\ pc = "stopped"
    /\ ~running
    /\ hist.exit = "signal"
    /\ batch_counter >= 1
    /\ total_events_inserted = 0
    /\ total_orders_inserted = BATCH_SIZE_ORDERS * batch_counter


\* C23: the two counters never decrease, each is a multiple of its batch size
\* and at most its batch size times the number of cycles started; the cycle
\* index grows by exactly one per completed cycle, whether the writes of the
\* cycle succeeded or failed.
C23_CountersAndCycleIndex ==
    /\ [][ /\ total_events_inserted' >= total_events_inserted
           /\ total_orders_inserted' >= total_orders_inserted ]_vars
    /\ [](/\ total_events_inserted % BATCH_SIZE_EVENTS = 0
          /\ total_orders_inserted % BATCH_SIZE_ORDERS = 0
          /\ total_events_inserted >= 0
          /\ total_orders_inserted >= 0
          /\ total_events_inserted <= BATCH_SIZE_EVENTS * hist.cycles_started
          /\ total_orders_inserted <= BATCH_SIZE_ORDERS * hist.cycles_started)
    /\ [][ (pc = "join_orders" /\ pc' # pc) =>
              batch_counter' = batch_counter + 1 ]_vars
    /\ [][ batch_counter' # batch_counter =>
              /\ pc = "join_orders"
              /\ batch_counter' = batch_counter + 1 ]_vars
    /\ [](/\ batch_counter <= hist.cycles_started
          /\ hist.cycles_started <= batch_counter + 1)

\* two cycles are complete; the event write of the second one failed, and
\* the cycle index counts both
C23_Witness ==
    /\ pc = "stats"
    /\ batch_counter = 2
    /\ ~events_success
    /\ orders_success
    /\ total_events_inserted = BATCH_SIZE_EVENTS
    /\ total_orders_inserted = 2 * BATCH_SIZE_ORDERS


(* ------------------------------------------------------------------ *)
(* The dashboard: /api/query/execute                                   *)
(* ------------------------------------------------------------------ *)
UpperCase == <<"A", "B", "C", "D", "E", "F", "G", "H", "I", "J", "K", "L", "M", "N", "O", "P", "Q", "R", "S", "T", "U", "V", "W", "X", "Y", "Z">>
LowerCase == <<"a", "b", "c", "d", "e", "f", "g", "h", "i", "j", "k", "l", "m", "n", "o", "p", "q", "r", "s", "t", "u", "v", "w", "x", "y", "z">>

\* str.upper() of one character and of a text
UpperChar(c) ==
    IF \E k \in 1..Len(LowerCase) : LowerCase[k] = c
    THEN UpperCase[CHOOSE k \in 1..Len(LowerCase) : LowerCase[k] = c]
    ELSE c

upper(s) == [k \in 1..Len(s) |-> UpperChar(s[k])]

\* str.startswith(prefix)
startswith(s, prefix) ==
    /\ Len(prefix) <= Len(s)
    /\ SubSeq(s, 1, Len(prefix)) = prefix

\* keyword in text
contains(s, keyword) ==
    \E k \in 1..(Len(s) - Len(keyword) + 1) :
       SubSeq(s, k, k + Len(keyword) - 1) = keyword

\* the words a query may start with
allowed_starts ==
    { <<"S", "E", "L", "E", "C", "T">>,
      <<"S", "H", "O", "W">>,
      <<"D", "E", "S", "C", "R", "I", "B", "E">> }

dangerous_keywords ==
    { <<"D", "R", "O", "P">>,
      <<"D", "E", "L", "E", "T", "E">>,
      <<"I", "N", "S", "E", "R", "T">>,
      <<"U", "P", "D", "A", "T", "E">>,
      <<"A", "L", "T", "E", "R">>,
      <<"C", "R", "E", "A", "T", "E">>,
      <<"T", "R", "U", "N", "C", "A", "T", "E">> }

\* the first test: not one of the three allowed starts
wrong_start(query_upper) ==
    \A w \in allowed_starts : ~startswith(query_upper, w)

\* a slip: the keywords are looked for in the text as typed
has_dangerous_keyword_as_typed(query, query_upper) ==
    \E keyword \in dangerous_keywords : contains(query, keyword)

\* any(keyword in query_upper for keyword in dangerous_keywords)
has_dangerous_keyword(query, query_upper) ==
    \E keyword \in dangerous_keywords : contains(query_upper, keyword)

\* the 'query' values of the request bodies tried: texts put together from
\* leading blanks, a first word and a rest, and null
QueryHeads ==
    { <<"S", "E", "L", "E", "C", "T">>,
      <<"s", "e", "l", "e", "c", "t">>,
      <<"S", "e", "L", "e", "C", "t">>,
      <<"S", "H", "O", "W">>,
      <<"s", "h", "o", "w">>,
      <<"D", "E", "S", "C", "R", "I", "B", "E">>,
      <<"d", "e", "s", "c", "r", "i", "b", "e">>,
      <<"D", "R", "O", "P">>,
      <<"i", "n", "s", "e", "r", "t">>,
      <<"E", "X", "P", "L", "A", "I", "N">>,
      <<"s", "e", "l", "e", "c">>,
      <<>> }

QueryTails ==
    { <<>>,
      <<" ", "1">>,
      <<" ", "*", " ", "F", "R", "O", "M", " ", "e", "v", "e", "n", "t", "s">>,
      <<" ", "c", "r", "e", "a", "t", "e", "d", "_", "a", "t", " ", "F", "R", "O", "M", " ", "t">>,
      <<" ", "1", ";", " ", "d", "r", "o", "p", " ", "t", "a", "b", "l", "e", " ", "t">>,
      <<" ", "x", " ", "f", "r", "o", "m", " ", "u", "p", "d", "a", "t", "e", "s">>,
      <<" ", "T", "A", "B", "L", "E", "S", " ">> }

NoneValue == <<"None">>

QueryValues ==
    { lead \o head \o tail :
         lead \in {<<>>, <<" ">>}, head \in QueryHeads, tail \in QueryTails }
    \cup {NoneValue}

InitQuery ==
    /\ gen = NoGen
    /\ pc = "start"
    /\ running = TRUE
    /\ user_count = 0
    /\ product_count = 0
    /\ batch_counter = 0
    /\ max_event_id = 0
    /\ max_order_id = 0
    /\ events = <<>>
    /\ orders = <<>>
    /\ task = [w \in Tasks |-> "none"]
    /\ future = [w \in Tasks |-> FALSE]
    /\ events_success = FALSE
    /\ orders_success = FALSE
    /\ total_events_inserted = 0
    /\ total_orders_inserted = 0
    /\ elapsed = 0
    /\ since_stats = 0
    /\ sleep_left = 0
    /\ sink = [users |-> UserRows, products |-> ProductRows,
               max_event |-> 0, max_order |-> 0]
    /\ hist = NoHistory
    /\ \E value \in QueryValues :
          dash = [at |-> "request", value |-> value, status |-> 0,
                  executed |-> <<>>]

\* the status execute_custom_query answers with and the texts it has passed
\* to client.execute, for the 'query' value of the body and the store's
\* behaviour (raises: client.execute raises)
custom_query_outcome(value, raises) ==
    IF value = NoneValue
    THEN [status |-> 500, executed |-> <<>>]
    ELSE LET query == strip(value)
             query_upper == strip(upper(query))
         IN IF query = <<>>
            THEN [status |-> 400, executed |-> <<>>]
            ELSE IF wrong_start(query_upper)
            THEN [status |-> 403, executed |-> <<>>]
            ELSE IF has_dangerous_keyword(query, query_upper)
            THEN [status |-> 403, executed |-> <<>>]
            ELSE [status |-> IF raises THEN 500 ELSE 200,
                  executed |-> <<query>>]

\* POST /api/query/execute, from the request to the response
execute_custom_query ==
    /\ dash.at = "request"
    /\ \E raises \in BOOLEAN :
          LET out == custom_query_outcome(dash.value, raises)
          IN dash' = [dash EXCEPT !.at = "responded",
                                  !.status = out.status,
                                  !.executed = out.executed]
    /\ UNCHANGED <<gen, pc, running, locals, pool, totals, clock, sink, hist>>

NextQuery ==
    \/ execute_custom_query

SpecQuery == InitQuery /\ [][NextQuery]_vars

\* the text of a request, blanks at both ends taken off; nothing for null
QueryText(value) == IF value = NoneValue THEN <<>> ELSE strip(value)

\* the text in capitals begins with word / has word somewhere in it
BeginsWith(text, word) ==
    /\ Len(text) >= Len(word)
    /\ \A k \in 1..Len(word) : UpperChar(text[k]) = word[k]

HasWord(text, word) ==
    \E at \in 0..(Len(text) - Len(word)) :
       \A k \in 1..Len(word) : UpperChar(text[at + k]) = word[k]

ReadOnlyText(text) ==
    /\ text # <<>>
    /\ \E word \in allowed_starts : BeginsWith(text, word)
    /\ \A word \in dangerous_keywords : ~HasWord(text, word)

\* C24: the custom query endpoint passes a query to the store only when it is
\* not empty, begins (in any case) with SELECT, SHOW or DESCRIBE and has none
\* of DROP, DELETE, INSERT, UPDATE, ALTER, CREATE, TRUNCATE in it; an empty
\* query is answered 400 and a disallowed one 403, nothing being executed.
C24_CustomQueryReadOnly ==
    dash.at = "responded" =>
       LET text == QueryText(dash.value)
       IN /\ dash.executed # <<>> =>
                /\ dash.executed = <<text>>
                /\ ReadOnlyText(text)
                /\ dash.status \in {200, 500}
          /\ (dash.value # NoneValue /\ text = <<>>) =>
                (dash.status = 400 /\ dash.executed = <<>>)
          /\ (text # <<>> /\ ~ReadOnlyText(text)) =>
                (dash.status = 403 /\ dash.executed = <<>>)
          /\ (text # <<>> /\ ReadOnlyText(text)) => dash.executed = <<text>>

\* a select in small letters with a drop behind it has been answered 403,
\* nothing executed
C24_Witness ==
    /\ dash.at = "responded"
    /\ dash.value = <<" ", "s", "e", "l", "e", "c", "t", " ", "1", ";", " ", "d", "r", "o", "p", " ", "t", "a", "b", "l", "e", " ", "t">>
    /\ dash.status = 403
    /\ dash.executed = <<>>


(* ------------------------------------------------------------------ *)
(* The dashboard: /api/live/events-stream, one connection              *)
(* ------------------------------------------------------------------ *)
\* the events table as the batches the streamer has written into it
TableIds(table) == UNION {Ids(table[b]) : b \in 1..Len(table)}

\* the number of rows of the table that carry the id
RowCount(table, id) == Cardinality({b \in 1..Len(table) : id \in Ids(table[b])})

TableMax(table) ==
    IF TableIds(table) = {} THEN 0
    ELSE CHOOSE m \in TableIds(table) : \A x \in TableIds(table) : x <= m

\* SELECT ... WHERE event_id > last_event_id ORDER BY event_id ASC LIMIT n:
\* the event_id column of the result
RECURSIVE select_events(_, _, _)
select_events(table, last_event_id, n) ==
    LET above == {x \in TableIds(table) : x > last_event_id}
    IN IF n = 0 \/ above = {} THEN <<>>
       ELSE LET m == CHOOSE x \in above : \A y \in above : x <= y
                rows == Min(RowCount(table, m), n)
            IN [k \in 1..rows |-> m] \o select_events(table, m, n - rows)

\* some id stands in two rows of the result
RepeatsInside(results) ==
    \E a, b \in 1..Len(results) : a # b /\ results[a] = results[b]

InitStream ==
    /\ gen = NoGen
    /\ pc = "start"
    /\ running = TRUE
    /\ user_count = 0
    /\ product_count = 0
    /\ batch_counter = 0
    /\ max_event_id = 0
    /\ max_order_id = 0
    /\ events = <<>>
    /\ orders = <<>>
    /\ task = [w \in Tasks |-> "none"]
    /\ future = [w \in Tasks |-> FALSE]
    /\ events_success = FALSE
    /\ orders_success = FALSE
    /\ total_events_inserted = 0
    /\ total_orders_inserted = 0
    /\ elapsed = 0
    /\ since_stats = 0
    /\ sleep_left = 0
    /\ sink = [users |-> UserRows, products |-> ProductRows,
               max_event |-> 0, max_order |-> 0]
    /\ hist = NoHistory
    /\ dash = [at |-> "stream", last_event_id |-> 0, table |-> <<>>,
               message |-> "none", emitted |-> <<>>, delivered |-> {},
               twice |-> FALSE, polls |-> 0, errors |-> 0]

\* one pass of the while loop in which client.execute returns
poll_events ==
    /\ dash.at = "stream"
    /\ LET results == select_events(dash.table, dash.last_event_id, LIMIT)
       IN dash' = IF results # <<>>
                  THEN [dash EXCEPT
                          !.last_event_id = Max(@, results[Len(results)]),
                          !.message = "events",
                          !.emitted = results,
                          !.delivered = @ \cup Ids(results),
                          !.twice = \/ @
                                    \/ Ids(results) \cap dash.delivered # {}
                                    \/ RepeatsInside(results),
                          !.polls = 1]
                  ELSE [dash EXCEPT !.message = "none", !.emitted = <<>>,
                                    !.polls = 1]
    /\ UNCHANGED <<gen, pc, running, locals, pool, totals, clock, sink, hist>>

\* one pass of the while loop in which client.execute raises
poll_fails ==
    /\ dash.at = "stream"
    /\ dash.errors < MaxPollFaults
    /\ dash' = [dash EXCEPT !.message = "error", !.emitted = <<>>,
                            !.errors = @ + 1, !.polls = 1]
    /\ UNCHANGED <<gen, pc, running, locals, pool, totals, clock, sink, hist>>

\* the streamer writes the event batch of its next cycle into the table; its
\* max-id query gave the table's greatest id, or failed and was read as 0
StreamerInsert ==
    /\ dash.at = "stream"
    /\ Len(dash.table) < MaxStreamBatches
    /\ \E resp \in {ScalarAnswer(TableMax(dash.table)), Timeout} :
          /\ ~MaxIdRaises(resp)
          /\ dash' = [dash EXCEPT
                        !.table = Append(@, generate_events_batch(
                                               Len(dash.table), MaxIdValue(resp)))]
    /\ UNCHANGED <<gen, pc, running, locals, pool, totals, clock, sink, hist>>

NextStream ==
    \/ poll_events
    \/ poll_fails
    \/ StreamerInsert

SpecStream == InitStream /\ [][NextStream]_vars

\* C25: on one events-stream connection last_event_id never decreases, every
\* emitted event has an id above last_event_id as it was at the poll, no
\* event_id is delivered twice, and a failed poll emits an error, leaves
\* last_event_id as it was and the stream goes on polling.
C25_StreamDeliversEachIdOnce ==
    /\ [][ dash'.last_event_id >= dash.last_event_id ]_vars
    /\ [][ \A k \in 1..Len(dash'.emitted) :
              dash'.emitted # dash.emitted => dash'.emitted[k] > dash.last_event_id ]_vars
    /\ [][ dash'.errors # dash.errors =>
              /\ dash'.message = "error"
              /\ dash'.last_event_id = dash.last_event_id
              /\ dash'.at = "stream" ]_vars
    /\ [](~dash.twice)

====
